---- MODULE Spec2Model ----
(***************************************************************************)
(* A model of gen_toa_data_v2.py: the order-id counter file, the weather   *)
(* random walk, item selection, order assembly, and the two drivers        *)
(* (stream_mode, historical_mode) behind the command line.                 *)
(*                                                                         *)
(* Text (file contents, order ids) is a sequence of one-character strings. *)
(* Temperatures and humidities are integers in tenths (the code rounds     *)
(* them to one decimal).  Money is in thousandths, so that round(.., 2) is *)
(* a real rounding.  Time is in seconds from 2025-01-01T00:00:00.          *)
(* Python dicts that the code mutates or copies live in `heap`, keyed by   *)
(* object identity; locals and order records hold references into it.     *)
(***************************************************************************)
EXTENDS Integers, Sequences, FiniteSets, TLC

VARIABLES
    args,      \* parsed command line: mode, interval, start_date, end_date, env
    pc,        \* position of the main program / of the driver
    exc,       \* the exception in flight ("" when none); the outcome once pc = "exit"
    intr,      \* "none" | "delivered": the external interrupt signal
    file,      \* order_id_counter.txt: [exists, text]
    run,       \* process incarnation (restarts re-load the counter file)
    issued,    \* history of identifiers returned by next_order_id: [id, run]
    heap,      \* weather dicts by identity; heap[1] is weather_sim.current
    weather,   \* the local `weather`: a reference into heap, 0 when unbound
    orders,    \* order records still referenced by the caller
    ts,        \* the local `ts`
    csv,       \* the historical output file: [state, header, rows]
    producer,  \* the Event Hub producer: [state, closes, sent]
    draw,      \* outcomes the random source is about to return (item-set runs)
    nsteps     \* number of WeatherSimulator.step() calls made

vars == <<args, pc, exc, intr, file, run, issued, heap, weather, orders, ts,
          csv, producer, draw, nsteps>>

(***************************************************************************)
(* Bounds of the model.                                                    *)
(***************************************************************************)
MaxStart    == 11   \* largest counter value found in the file at start-up
MaxCalls    == 3    \* next_order_id calls made by the allocator driver
MaxRestarts == 2    \* restarts of the allocator driver
MaxSteps    == 2    \* weather steps of the weather and snapshot drivers
MaxOrders   == 2    \* orders retained by the snapshot driver
MaxSent     == 2    \* loop iterations of stream_mode
MaxRows     == 5    \* rows of a historical run (cuts the diverging runs)
Resolution  == 4    \* sub-steps per tenth in which random.uniform is drawn

(***************************************************************************)
(* Small helpers.                                                          *)
(***************************************************************************)
None == 0 - 1000000   \* Python's None where a datetime is expected

Min(a, b) == IF a < b THEN a ELSE b
Max(a, b) == IF a > b THEN a ELSE b

Digits == <<"0", "1", "2", "3", "4", "5", "6", "7", "8", "9">>
Whitespace == {" ", "\n"}

DigitValue(c) == (CHOOSE i \in 1..10 : Digits[i] = c) - 1
IsDigit(c) == \E i \in 1..10 : Digits[i] = c

\* str(n) for an int n
RECURSIVE NatStr(_)
NatStr(n) == IF n < 10 THEN <<Digits[n + 1]>>
             ELSE NatStr(n \div 10) \o <<Digits[(n % 10) + 1]>>
str(n) == IF n < 0 THEN <<"-">> \o NatStr(-n) ELSE NatStr(n)

\* text.strip()
RECURSIVE LStrip(_)
LStrip(s) == IF s # <<>> /\ Head(s) \in Whitespace THEN LStrip(Tail(s)) ELSE s
RECURSIVE RStrip(_)
RStrip(s) == IF s # <<>> /\ s[Len(s)] \in Whitespace
             THEN RStrip(SubSeq(s, 1, Len(s) - 1)) ELSE s
strip(s) == RStrip(LStrip(s))

\* int(text): the literals the counter file can hold (optional sign, digits)
IsIntLiteral(s) ==
    LET body == IF s # <<>> /\ Head(s) = "-" THEN Tail(s) ELSE s
    IN  body # <<>> /\ \A i \in 1..Len(body) : IsDigit(body[i])
RECURSIVE NatVal(_)
NatVal(s) == IF s = <<>> THEN 0
             ELSE 10 * NatVal(SubSeq(s, 1, Len(s) - 1)) + DigitValue(s[Len(s)])
int(s) == IF Head(s) = "-" THEN 0 - NatVal(Tail(s)) ELSE NatVal(s)

(***************************************************************************)
(* The order-id counter file.  `fault` names the one I/O operation of the  *)
(* call that fails with OSError, or "none".                                *)
(***************************************************************************)
FaultPoints == {"none", "load_open", "load_write", "load_read",
                "save_open", "save_write"}

NoFile == [exists |-> FALSE, text |-> <<>>]
FileOf(n) == [exists |-> TRUE, text |-> str(n)]
Truncated == [exists |-> TRUE, text |-> <<>>]

\* load_last_order_id(): [file, raised, value]
load_last_order_id(f, fault) ==
    IF ~f.exists
    THEN IF fault = "load_open"
         THEN [file |-> f, raised |-> "OSError", value |-> 0]
         ELSE IF fault = "load_write"
         THEN [file |-> Truncated, raised |-> "OSError", value |-> 0]
         ELSE [file |-> [exists |-> TRUE, text |-> <<"0">>], raised |-> "", value |-> 0]
    ELSE IF fault = "load_read"
         THEN [file |-> f, raised |-> "OSError", value |-> 0]
         ELSE IF IsIntLiteral(strip(f.text))
         THEN [file |-> f, raised |-> "", value |-> int(strip(f.text))]
         ELSE [file |-> f, raised |-> "ValueError", value |-> 0]

\* mutant: the new value never reaches the file
save_last_order_id_lost(f, last_id, fault) ==
    [file |-> f, raised |-> ""]

\* save_last_order_id(last_id): open(.., "w") truncates, then the text is written
save_last_order_id(f, last_id, fault) ==
    IF fault = "save_open"
    THEN [file |-> f, raised |-> "OSError"]
    ELSE IF fault = "save_write"
    THEN [file |-> Truncated, raised |-> "OSError"]
    ELSE [file |-> [exists |-> TRUE, text |-> str(last_id)], raised |-> ""]

OrderPrefix == <<"o", "r", "d", "e", "r", "_">>

\* next_order_id(): [file, raised, id]
next_order_id(f, fault) ==
    LET l == load_last_order_id(f, fault)
    IN  IF l.raised # ""
        THEN [file |-> l.file, raised |-> l.raised, id |-> <<>>]
        ELSE LET new == l.value + 1
                 s   == save_last_order_id(l.file, new, fault)
             IN  IF s.raised # ""
                 THEN [file |-> s.file, raised |-> s.raised, id |-> <<>>]
                 ELSE [file |-> s.file, raised |-> "", id |-> OrderPrefix \o str(new)]

\* the N of order_N
Suffix(id) == int(SubSeq(id, Len(OrderPrefix) + 1, Len(id)))

(***************************************************************************)
(* WeatherSimulator.  A dict is [temperature, humidity, condition], the    *)
(* numbers in tenths.  random.uniform(-0.2, 0.2) is drawn in steps of      *)
(* 1/Resolution of a tenth; the sum is clamped and then rounded to a       *)
(* tenth.  A sum exactly half-way between two tenths rounds either way     *)
(* (which way depends on its binary representation).                       *)
(***************************************************************************)
TempMin == -50
TempMax == 350
HumMin  == 200
HumMax  == 900
TempSpread == 2    \* tenths: uniform(-0.2, 0.2)
HumSpread  == 5    \* tenths: uniform(-0.5, 0.5)

WEATHER_CONDITIONS == <<"sunny", "cloudy", "rainy", "snowy">>
Conditions == {WEATHER_CONDITIONS[i] : i \in 1..Len(WEATHER_CONDITIONS)}

DefaultWeather == [temperature |-> 200, humidity |-> 500, condition |-> "sunny"]

TempDraws == (0 - TempSpread * Resolution)..(TempSpread * Resolution)
HumDraws  == (0 - HumSpread * Resolution)..(HumSpread * Resolution)

\* mutant: the lower clamp is missing
Clamp_no_floor(x, lo, hi) == Min(x, hi)

\* min(max(x, lo), hi)
Clamp(x, lo, hi) == Min(Max(x, lo), hi)

\* round(x, 1), x in 1/Resolution tenths: the tenths it can give
Round1(x) ==
    LET q == x \div Resolution
        r == x % Resolution
    IN  IF 2 * r < Resolution THEN {q}
        ELSE IF 2 * r > Resolution THEN {q + 1}
        ELSE {q, q + 1}

\* self.current["temperature"] = round(min(max(.. + uniform(-0.2, 0.2), -5), 35), 1)
NextTemperature(t, dT) ==
    Round1(Clamp(t * Resolution + dT, TempMin * Resolution, TempMax * Resolution))

\* self.current["humidity"] = round(min(max(.. + uniform(-0.5, 0.5), 20), 90), 1)
NextHumidity(h, dH) ==
    Round1(Clamp(h * Resolution + dH, HumMin * Resolution, HumMax * Resolution))

\* if random.random() < 0.05: self.current["condition"] = random.choice(..)
NextCondition(c, change, choice) == IF change THEN choice ELSE c

\* the states self.current can hold after the assignments of step(), the
\* perturbations drawn from TD and HD and the condition choice from CC
StepOutcomes(cur, TD, HD, CC) ==
    { [temperature |-> t, humidity |-> h, condition |-> c] :
        t \in UNION {NextTemperature(cur.temperature, d) : d \in TD},
        h \in UNION {NextHumidity(cur.humidity, d) : d \in HD},
        c \in {NextCondition(cur.condition, ch, co) : ch \in BOOLEAN, co \in CC} }

\* a sample of the perturbations for the runs that are not about the walk
CoarseTempDraws == {0, TempSpread * Resolution}
CoarseHumDraws  == {0 - HumSpread * Resolution}
CoarseConditions == {"rainy"}

InBounds(w) == /\ w.temperature >= TempMin /\ w.temperature <= TempMax
               /\ w.humidity >= HumMin /\ w.humidity <= HumMax
               /\ w.condition \in Conditions

\* object identities: 1 is weather_sim.current, copies get the least free one
NewId(h) == CHOOSE n \in 2..(Cardinality(DOMAIN h) + 2) :
                n \notin DOMAIN h /\ \A m \in 2..(n - 1) : m \in DOMAIN h

\* reference counting: a dict nobody refers to any more is freed
Collect(h, roots) == [i \in (DOMAIN h) \cap roots |-> h[i]]

\* mutant: step() returns self.current itself
step_alias(h, new) ==
    [heap |-> [h EXCEPT ![1] = new], ret |-> 1]

\* step(): self.current is updated in place, dict(self.current) is returned
step(h, new) ==
    LET id == NewId(h)
    IN  [heap |-> [i \in DOMAIN h \cup {id} |-> IF i \in {1, id} THEN new ELSE h[i]],
         ret  |-> id]

(***************************************************************************)
(* generate_items and create_order.  The random source's outcomes are the  *)
(* record d: d.register_type, d.register and d.employee (indices chosen by *)
(* random.choice), d.order_size, and d.picks[item]: 0 when                 *)
(* random.random() < base_prob came out false, else the raw draw behind    *)
(* random.randint.                                                         *)
(***************************************************************************)
MenuOrder == <<"hamburger", "fried_chicken", "fries", "drink", "ice_cream", "dessert">>
Catalog == {MenuOrder[i] : i \in 1..Len(MenuOrder)}

\* MENU_PRICES, in thousandths
MENU_PRICES == [i \in Catalog |->
    CASE i = "hamburger"     -> 12000
      [] i = "fried_chicken" -> 14000
      [] i = "fries"         -> 6000
      [] i = "drink"         -> 5000
      [] i = "ice_cream"     -> 7000
      [] i = "dessert"       -> 8000]

NumEmployees == 15
RegisterTypes == <<"stationary", "drive", "kiosk">>
RegisterCount == [t \in {"stationary", "drive", "kiosk"} |->
                    IF t = "stationary" THEN 3 ELSE 2]
EMPLOYEES == [i \in 1..NumEmployees |-> <<"employee_">> \o str(i)]
REGISTERS == [t \in DOMAIN RegisterCount |->
                [i \in 1..RegisterCount[t] |-> <<t, "_">> \o str(i)]]

SmallMaxQty == 2
LargeMaxQty == 5
RawDraws == 0..LargeMaxQty

\* random.randint(lo, hi) from the raw draw u >= 1
randint(lo, hi, u) == lo + ((u - 1) % (hi - lo + 1))

\* round(x, 2), x in thousandths (half to even)
Round2(x) ==
    LET q == x \div 10
        r == x % 10
    IN  10 * (IF r < 5 THEN q ELSE IF r > 5 THEN q + 1
              ELSE IF q % 2 = 0 THEN q ELSE q + 1)

\* mutant: every order size draws quantities up to 5
max_qty_always_large(order_size) == LargeMaxQty

\* max_qty = 2 if order_size == "small" else 5
max_qty(order_size) == IF order_size = "small" THEN SmallMaxQty ELSE LargeMaxQty

\* mutant: the price is added once, whatever the quantity
ItemBody_unit_price(acc, item, order_size, pick) ==
    IF pick # 0
    THEN LET qty == randint(1, max_qty(order_size), pick)
         IN  [items |-> [i \in DOMAIN acc.items \cup {item} |->
                            IF i = item THEN qty ELSE acc.items[i]],
              total |-> acc.total + MENU_PRICES[item]]
    ELSE acc

\* one pass of the loop body of generate_items
ItemBody(acc, item, order_size, pick) ==
    IF pick # 0
    THEN LET qty == randint(1, max_qty(order_size), pick)
         IN  [items |-> [i \in DOMAIN acc.items \cup {item} |->
                            IF i = item THEN qty ELSE acc.items[i]],
              total |-> acc.total + qty * MENU_PRICES[item]]
    ELSE acc

RECURSIVE ItemLoop(_, _, _, _)
ItemLoop(k, acc, order_size, picks) ==
    IF k > Len(MenuOrder) THEN acc
    ELSE ItemLoop(k + 1, ItemBody(acc, MenuOrder[k], order_size, picks[MenuOrder[k]]),
                  order_size, picks)

\* generate_items(order_size): [items, total]
generate_items(order_size, picks) ==
    LET acc == ItemLoop(1, [items |-> <<>>, total |-> 0], order_size, picks)
    IN  [items |-> acc.items, total |-> Round2(acc.total)]

\* datetime.isoformat(): <<day, hour, minute, second>> counted from 2025-01-01
isoformat(t) == <<t \div 86400, (t % 86400) \div 3600, (t % 3600) \div 60, t % 60>>

\* create_order(ts, weather): [file, raised, order]
create_order(t, w, d, f, fault) ==
    LET register_type == RegisterTypes[d.register_type]
        register_id   == REGISTERS[register_type][d.register]
        employee_id   == EMPLOYEES[d.employee]
        g             == generate_items(d.order_size, d.picks)
        n             == next_order_id(f, fault)
    IN  [file   |-> n.file,
         raised |-> n.raised,
         order  |-> [order_id        |-> n.id,
                     timestamp       |-> isoformat(t),
                     restaurant_id   |-> "restaurant_001",
                     register_type   |-> register_type,
                     register_id     |-> register_id,
                     employee_id     |-> employee_id,
                     order_size      |-> d.order_size,
                     items           |-> g.items,
                     total_amount    |-> g.total,
                     processing_time |-> isoformat(t),
                     IsWeather       |-> w]]

\* outcomes of the draws made while one order is assembled
NoPicks  == [i \in Catalog |-> 0]
SomePicks == [i \in Catalog |-> IF i \in {"hamburger", "fries"} THEN 2 ELSE 0]
MkDraw(c, size, picks) ==
    [register_type |-> c.register_type, register |-> c.register,
     employee |-> c.employee, order_size |-> size, picks |-> picks]
\* all item draws, in a sample of the register/employee draws
ItemRunDraws == {MkDraw([register_type |-> 3, register |-> 2, employee |-> 7],
                        size, picks) :
                    size \in {"small", "large"}, picks \in [Catalog -> RawDraws]}
\* a sample of the draws for the runs that are not about the item set
SampleDraws == {MkDraw([register_type |-> 1, register |-> 3, employee |-> 1],
                       "small", NoPicks),
                MkDraw([register_type |-> 2, register |-> 2, employee |-> 15],
                       "large", SomePicks)}
NoDraw == MkDraw([register_type |-> 1, register |-> 1, employee |-> 1], "small", NoPicks)

(***************************************************************************)
(* State shared by every run.                                              *)
(***************************************************************************)
NoArgs == [mode |-> "stream", interval |-> 0, start_date |-> None,
           end_date |-> None, env |-> TRUE]
NoCsv == [state |-> "unopened", header |-> FALSE, rows |-> <<>>]
NoProducer == [state |-> "none", closes |-> 0, sent |-> 0]
Sim(w) == [i \in {1} |-> w]          \* the heap right after WeatherSimulator()
Refs(os) == {os[i].IsWeather : i \in DOMAIN os}

Idle(position) ==
    /\ args = NoArgs /\ pc = position /\ exc = "" /\ intr = "none"
    /\ run = 0 /\ issued = <<>> /\ weather = 0 /\ orders = <<>> /\ ts = None
    /\ csv = NoCsv /\ producer = NoProducer /\ nsteps = 0

\* the counter files a run can find: none, one the program wrote, one an
\* operator wrote with a text editor (the reason load_last_order_id strips)
StartFiles == {NoFile} \cup {FileOf(n) : n \in 0..MaxStart}
                 \cup {[exists |-> TRUE, text |-> str(MaxStart) \o <<"\n">>]}

(***************************************************************************)
(* The allocator on its own: calls of next_order_id, any of which may hit  *)
(* an I/O fault, and restarts of the process between them.                 *)
(***************************************************************************)
InitAlloc ==
    /\ Idle("alloc") /\ file \in StartFiles
    /\ heap = <<>> /\ draw = NoDraw

AllocCall ==
    /\ pc = "alloc" /\ Len(issued) < MaxCalls
    /\ \E fault \in FaultPoints :
         LET r == next_order_id(file, fault)
         IN  /\ file' = r.file
             /\ issued' = IF r.raised = ""
                          THEN Append(issued, [id |-> r.id, run |-> run])
                          ELSE issued
    /\ UNCHANGED <<args, pc, exc, intr, run, heap, weather, orders, ts, csv,
                   producer, draw, nsteps>>

AllocRestart ==
    /\ pc = "alloc" /\ run < MaxRestarts
    /\ run' = run + 1
    /\ UNCHANGED <<args, pc, exc, intr, file, issued, heap, weather, orders, ts,
                   csv, producer, draw, nsteps>>

NextAlloc == AllocCall \/ AllocRestart
SpecAlloc == InitAlloc /\ [][NextAlloc]_vars

\* C1: every identifier returned is order_N with N greater than the N of every
\* identifier returned before it, across restarts that re-load the counter file
C1_StrictlyIncreasing ==
    \A j \in DOMAIN issued :
        /\ SubSeq(issued[j].id, 1, Len(OrderPrefix)) = OrderPrefix
        /\ \A i \in 1..(j - 1) : Suffix(issued[i].id) < Suffix(issued[j].id)

\* C1 witness: identifiers on both sides of a restart, the later one two digits long
C1_Witness ==
    /\ Len(issued) = MaxCalls
    /\ issued[1].run < issued[2].run
    /\ Len(issued[1].id) < Len(issued[MaxCalls].id)

(***************************************************************************)
(* The weather walk on its own, from the default state and from states     *)
(* next to the bounds, with every perturbation the resolution allows.      *)
(***************************************************************************)
StartWeathers ==
    {DefaultWeather} \cup
    { [temperature |-> t, humidity |-> h, condition |-> c] :
        t \in {TempMin, TempMin + 1, TempMax - 1, TempMax},
        h \in {HumMin, HumMin + 2, HumMax - 2, HumMax},
        c \in {"cloudy", "snowy"} }

InitWeather ==
    /\ Idle("weather") /\ file = NoFile /\ draw = NoDraw
    /\ \E w \in StartWeathers : heap = Sim(w)

\* weather = weather_sim.step(), the draws taken from TD, HD and CC
DoStep(TD, HD, CC) ==
    \E new \in StepOutcomes(heap[1], TD, HD, CC) :
        LET r == step(heap, new)
        IN  /\ heap' = Collect(r.heap, {1, r.ret} \cup Refs(orders))
            /\ weather' = r.ret
            /\ nsteps' = nsteps + 1

WeatherStep ==
    /\ pc = "weather" /\ nsteps < MaxSteps
    /\ DoStep(TempDraws, HumDraws, Conditions)
    /\ UNCHANGED <<args, pc, exc, intr, file, run, issued, orders, ts, csv,
                   producer, draw>>

NextWeather == WeatherStep
SpecWeather == InitWeather /\ [][NextWeather]_vars

\* C2: after any number of steps the simulator's state and every snapshot it
\* returned have temperature in [-5, 35], humidity in [20, 90] and a condition
\* among sunny, cloudy, rainy, snowy
C2_WeatherInBounds ==
    \A id \in DOMAIN heap :
        /\ heap[id].temperature \in (0 - 50)..350
        /\ heap[id].humidity \in 200..900
        /\ heap[id].condition \in {"sunny", "cloudy", "rainy", "snowy"}

\* C2 witness: steps have run and left the state on both clamps
C2_Witness ==
    /\ nsteps = MaxSteps /\ weather # 0
    /\ heap[weather].temperature = TempMin
    /\ heap[weather].humidity = HumMax
    /\ heap[1] = heap[weather]

(***************************************************************************)
(* One order assembled for every outcome of the item draws.                *)
(***************************************************************************)
InitItems ==
    /\ Idle("items") /\ file = NoFile
    /\ heap = [i \in {1, 2} |-> DefaultWeather]
    /\ draw \in ItemRunDraws

ItemsCreate ==
    /\ pc = "items" /\ orders = <<>>
    /\ LET r == create_order(0, 2, draw, file, "none")
       IN  /\ orders' = <<r.order>>
           /\ file' = r.file
           /\ issued' = Append(issued, [id |-> r.order.order_id, run |-> run])
    /\ weather' = 2
    /\ UNCHANGED <<args, pc, exc, intr, run, heap, ts, csv, producer, draw, nsteps>>

NextItems == ItemsCreate
SpecItems == InitItems /\ [][NextItems]_vars

RECURSIVE PricedSum(_, _)
PricedSum(items, left) ==
    IF left = {} THEN 0
    ELSE LET i == CHOOSE x \in left : TRUE
         IN  items[i] * MENU_PRICES[i] + PricedSum(items, left \ {i})

\* C3: total_amount is the sum over the order's items of quantity times
\* catalog price, rounded to 2 decimals; an order with no items totals 0.00
C3_TotalIsPricedSum ==
    \A k \in DOMAIN orders :
        /\ orders[k].total_amount =
               Round2(PricedSum(orders[k].items, DOMAIN orders[k].items))
        /\ DOMAIN orders[k].items = {} => orders[k].total_amount = 0

\* C3 witness: a large order holding all six items, five of them fries
C3_Witness ==
    /\ orders # <<>>
    /\ orders[1].order_size = "large"
    /\ DOMAIN orders[1].items = Catalog
    /\ orders[1].items["fries"] = 5
    /\ orders[1].items["drink"] = 3
    /\ orders[1].total_amount > 100000

\* C4: every included item is a catalog item with an integer quantity in
\* [1, 2] for a small order and in [1, 5] for a large one; none has quantity 0
C4_QuantityRange ==
    \A k \in DOMAIN orders :
        \A i \in DOMAIN orders[k].items :
            /\ i \in Catalog
            /\ orders[k].items[i] \in
                   (IF orders[k].order_size = "small" THEN 1..2 ELSE 1..5)

\* C4 witness: a small order whose raw draws ran over the whole range
C4_Witness ==
    /\ orders # <<>>
    /\ orders[1].order_size = "small"
    /\ draw.picks["fries"] = 5 /\ "fries" \in DOMAIN orders[1].items
    /\ draw.picks["drink"] = 4 /\ orders[1].items["drink"] = 2
    /\ draw.picks["dessert"] = 0 /\ "dessert" \notin DOMAIN orders[1].items

(***************************************************************************)
(* A caller that keeps the orders it creates while the walk goes on.       *)
(***************************************************************************)
InitSnap ==
    /\ Idle("snap") /\ file \in {NoFile, FileOf(9)}
    /\ heap = Sim(DefaultWeather) /\ draw = NoDraw

SnapStep ==
    /\ pc = "snap" /\ nsteps < MaxSteps
    /\ DoStep(CoarseTempDraws, CoarseHumDraws, CoarseConditions)
    /\ UNCHANGED <<args, pc, exc, intr, file, run, issued, orders, ts, csv,
                   producer, draw>>

SnapCreate ==
    /\ pc = "snap" /\ weather # 0 /\ Len(orders) < MaxOrders
    /\ \E d \in SampleDraws, fault \in FaultPoints :
         LET r == create_order(nsteps, weather, d, file, fault)
         IN  /\ file' = r.file
             /\ orders' = IF r.raised = "" THEN Append(orders, r.order) ELSE orders
             /\ issued' = IF r.raised = ""
                          THEN Append(issued, [id |-> r.order.order_id, run |-> run])
                          ELSE issued
    /\ UNCHANGED <<args, pc, exc, intr, run, heap, weather, ts, csv, producer,
                   draw, nsteps>>

NextSnap == SnapStep \/ SnapCreate
SpecSnap == InitSnap /\ [][NextSnap]_vars

\* C10: the IsWeather of an order already created keeps its value through
\* every later step and every later create_order, and no order refers to the
\* dict that step() mutates
C10_SnapshotIsCopy ==
    /\ [](\A k \in DOMAIN orders : orders[k].IsWeather # 1)
    /\ [][\A k \in DOMAIN orders :
            /\ k \in DOMAIN orders'
            /\ heap'[orders'[k].IsWeather] = heap[orders[k].IsWeather]]_vars

\* C10 witness: two orders with their own snapshots, the walk having moved on
\* since the first was created
C10_Witness ==
    /\ Len(orders) = 2
    /\ nsteps >= 2
    /\ orders[1].IsWeather # orders[2].IsWeather
    /\ heap[orders[1].IsWeather] # heap[orders[2].IsWeather]
    /\ heap[orders[1].IsWeather] # heap[1]

(***************************************************************************)
(* The program: the command line, stream_mode and historical_mode.         *)
(* stream_mode is followed statement by statement, since the interrupt can *)
(* arrive before any of them; pc names the statement about to run.         *)
(***************************************************************************)
StreamIntervals == {0 - 1, 0, 15}
HistIntervals   == {0 - 30, 0, 20, 30}
StartDates      == {None, 0, 30}
EndDates        == {None, 0, 30, 50, 60}

ArgSets ==
    { [mode |-> "stream", interval |-> i, start_date |-> None,
       end_date |-> None, env |-> e] : i \in StreamIntervals, e \in BOOLEAN }
    \cup
    { [mode |-> "historical", interval |-> i, start_date |-> a,
       end_date |-> b, env |-> TRUE] :
         i \in HistIntervals, a \in StartDates, b \in EndDates }

BeforeTry == {"s_assert", "s_producer", "s_weather"}
InTry     == {"s_ts", "s_step", "s_create", "s_send", "s_print", "s_sleep"}

Init ==
    /\ args \in ArgSets
    /\ file \in {NoFile, FileOf(9)}
    /\ pc = "main" /\ exc = "" /\ intr = "none"
    /\ run = 0 /\ issued = <<>> /\ heap = <<>> /\ weather = 0 /\ orders = <<>>
    /\ ts = None /\ csv = NoCsv /\ producer = NoProducer
    /\ draw = NoDraw /\ nsteps = 0

\* mutant: only the start date is asked for
HasBothDates_start_only(a) == a.start_date # None

\* assert args.start_date and args.end_date
HasBothDates(a) == a.start_date # None /\ a.end_date # None

\* if args.mode == "stream": .. else: assert ..; historical_mode(..)
Main ==
    /\ pc = "main"
    /\ IF args.mode = "stream"
       THEN pc' = "s_assert" /\ exc' = exc
       ELSE IF HasBothDates(args)
            THEN pc' = "h_open" /\ exc' = exc
            ELSE pc' = "exit" /\ exc' = "AssertionError"
    /\ UNCHANGED <<args, intr, file, run, issued, heap, weather, orders, ts, csv,
                   producer, draw, nsteps>>

\* assert EVENTHUB_CONN_STR and EVENTHUB_NAME
StreamAssert ==
    /\ pc = "s_assert"
    /\ IF args.env
       THEN pc' = "s_producer" /\ exc' = exc
       ELSE pc' = "exit" /\ exc' = "AssertionError"
    /\ UNCHANGED <<args, intr, file, run, issued, heap, weather, orders, ts, csv,
                   producer, draw, nsteps>>

\* producer = EventHubProducerClient.from_connection_string(..)
StreamProducer ==
    /\ pc = "s_producer"
    /\ \E ok \in BOOLEAN :
         IF ok
         THEN /\ producer' = [producer EXCEPT !.state = "open"]
              /\ pc' = "s_weather" /\ exc' = exc
         ELSE /\ producer' = producer
              /\ pc' = "exit" /\ exc' = "EventHubError"
    /\ UNCHANGED <<args, intr, file, run, issued, heap, weather, orders, ts, csv,
                   draw, nsteps>>

\* weather_sim = WeatherSimulator()
StreamWeather ==
    /\ pc = "s_weather"
    /\ heap' = Sim(DefaultWeather)
    /\ pc' = "s_ts"
    /\ UNCHANGED <<args, exc, intr, file, run, issued, weather, orders, ts, csv,
                   producer, draw, nsteps>>

\* while True: ts = datetime.utcnow()
StreamTs ==
    /\ pc = "s_ts" /\ producer.sent < MaxSent
    /\ \E elapsed \in 0..1 : ts' = Max(ts, 0) + elapsed
    /\ pc' = "s_step"
    /\ UNCHANGED <<args, exc, intr, file, run, issued, heap, weather, orders, csv,
                   producer, draw, nsteps>>

\* weather = weather_sim.step()
StreamStep ==
    /\ pc = "s_step"
    /\ DoStep(CoarseTempDraws, CoarseHumDraws, CoarseConditions)
    /\ pc' = "s_create"
    /\ UNCHANGED <<args, exc, intr, file, run, issued, orders, ts, csv, producer,
                   draw>>

\* order = create_order(ts, weather)
StreamCreate ==
    /\ pc = "s_create"
    /\ \E d \in SampleDraws, fault \in FaultPoints :
         LET r == create_order(ts, weather, d, file, fault)
         IN  /\ file' = r.file
             /\ IF r.raised = ""
                THEN /\ orders' = <<r.order>>
                     /\ issued' = Append(issued, [id |-> r.order.order_id, run |-> run])
                     /\ heap' = Collect(heap, {1, weather})
                     /\ pc' = "s_send" /\ exc' = exc
                ELSE /\ UNCHANGED <<orders, issued, heap>>
                     /\ pc' = "s_finally" /\ exc' = r.raised
    /\ UNCHANGED <<args, intr, run, weather, ts, csv, producer, draw, nsteps>>

\* send_to_eventhub(producer, order)
StreamSend ==
    /\ pc = "s_send"
    /\ \E ok \in BOOLEAN :
         IF ok
         THEN /\ producer' = [producer EXCEPT !.sent = @ + 1]
              /\ pc' = "s_print" /\ exc' = exc
         ELSE /\ producer' = producer
              /\ pc' = "s_finally" /\ exc' = "EventHubError"
    /\ UNCHANGED <<args, intr, file, run, issued, heap, weather, orders, ts, csv,
                   draw, nsteps>>

\* print(f"[{ts.isoformat()}] Sent {order['order_id']}")
StreamPrint ==
    /\ pc = "s_print"
    /\ pc' = "s_sleep"
    /\ UNCHANGED <<args, exc, intr, file, run, issued, heap, weather, orders, ts,
                   csv, producer, draw, nsteps>>

\* time.sleep(interval_sec): a negative length raises ValueError
StreamSleep ==
    /\ pc = "s_sleep"
    /\ IF args.interval < 0
       THEN pc' = "s_finally" /\ exc' = "ValueError"
       ELSE pc' = "s_ts" /\ exc' = exc
    /\ UNCHANGED <<args, intr, file, run, issued, heap, weather, orders, ts, csv,
                   producer, draw, nsteps>>

\* except KeyboardInterrupt: print("Streaming stopped by user.")
StreamExcept ==
    /\ pc = "s_except"
    /\ exc' = ""
    /\ pc' = "s_finally"
    /\ UNCHANGED <<args, intr, file, run, issued, heap, weather, orders, ts, csv,
                   producer, draw, nsteps>>

\* finally: producer.close()
StreamFinally ==
    /\ pc = "s_finally"
    /\ producer' = [producer EXCEPT !.state = "closed", !.closes = @ + 1]
    /\ pc' = "exit"
    /\ UNCHANGED <<args, exc, intr, file, run, issued, heap, weather, orders, ts,
                   csv, draw, nsteps>>

\* the interrupt signal: KeyboardInterrupt is raised in place of the statement
\* about to run.  Inside the try block the handler takes it; before the try
\* block, and inside the finally block, nothing does.
Interrupt ==
    /\ intr = "none"
    /\ pc \in BeforeTry \cup InTry \cup {"s_finally"}
    /\ intr' = "delivered"
    /\ exc' = "KeyboardInterrupt"
    /\ pc' = IF pc \in InTry THEN "s_except" ELSE "exit"
    /\ UNCHANGED <<args, file, run, issued, heap, weather, orders, ts, csv,
                   producer, draw, nsteps>>

\* weather_sim = WeatherSimulator(); ts = start; open(output, "w"); writeheader()
HistOpen ==
    /\ pc = "h_open"
    /\ heap' = Sim(DefaultWeather)
    /\ ts' = args.start_date
    /\ csv' = [state |-> "open", header |-> TRUE, rows |-> <<>>]
    /\ pc' = "h_loop"
    /\ UNCHANGED <<args, exc, intr, file, run, issued, weather, orders, producer,
                   draw, nsteps>>

Comparable(t, end) == t # None /\ end # None

\* mutant: the end of the range is left out
HistContinue_exclusive(t, end) == t < end

\* while ts <= end
HistContinue(t, end) == t <= end

\* one pass of the loop: step(), create_order(), writerow(), ts += timedelta(..)
\* (the row keeps the columns the properties read)
HistIterate ==
    /\ pc = "h_loop" /\ Comparable(ts, args.end_date)
    /\ HistContinue(ts, args.end_date)
    /\ Len(csv.rows) < MaxRows
    /\ DoStep(CoarseTempDraws, CoarseHumDraws, CoarseConditions)
    /\ \E d \in SampleDraws, fault \in FaultPoints :
         LET r == create_order(ts, weather', d, file, fault)
         IN  /\ file' = r.file
             /\ IF r.raised = ""
                THEN /\ orders' = <<r.order>>
                     /\ issued' = Append(issued, [id |-> r.order.order_id, run |-> run])
                     /\ csv' = [csv EXCEPT !.rows = Append(@,
                                   [order_id  |-> r.order.order_id,
                                    timestamp |-> r.order.timestamp])]
                     /\ ts' = ts + args.interval
                     /\ pc' = pc /\ exc' = exc
                ELSE /\ UNCHANGED <<orders, issued, ts>>
                     /\ csv' = [csv EXCEPT !.state = "closed"]
                     /\ pc' = "exit" /\ exc' = r.raised
    /\ UNCHANGED <<args, intr, run, producer, draw>>

\* the loop ends, or ts <= end raises TypeError on a None; either way the
\* with block closes the file
HistFinish ==
    /\ pc = "h_loop"
    /\ ~Comparable(ts, args.end_date) \/ ~HistContinue(ts, args.end_date)
    /\ csv' = [csv EXCEPT !.state = "closed"]
    /\ pc' = "exit"
    /\ exc' = IF Comparable(ts, args.end_date) THEN exc ELSE "TypeError"
    /\ UNCHANGED <<args, intr, file, run, issued, heap, weather, orders, ts,
                   producer, draw, nsteps>>

Next ==
    \/ Main
    \/ StreamAssert \/ StreamProducer \/ StreamWeather \/ StreamTs \/ StreamStep
    \/ StreamCreate \/ StreamSend \/ StreamPrint \/ StreamSleep
    \/ StreamExcept \/ StreamFinally \/ Interrupt
    \/ HistOpen \/ HistIterate \/ HistFinish

Spec == Init /\ [][Next]_vars

\* the program always runs its next statement; the interrupt may never come
Progress ==
    \/ Main
    \/ StreamAssert \/ StreamProducer \/ StreamWeather \/ StreamTs \/ StreamStep
    \/ StreamCreate \/ StreamSend \/ StreamPrint \/ StreamSleep
    \/ StreamExcept \/ StreamFinally
    \/ HistOpen \/ HistIterate \/ HistFinish
FairSpec == Spec /\ WF_vars(Progress)

(***************************************************************************)
(* Properties of the program.                                              *)
(***************************************************************************)
CleanExit == pc = "exit" /\ exc = ""

\* C5: a historical run with start <= end and a positive interval writes
\* floor((end - start) / interval) + 1 records, the k-th (from 0) stamped
\* start + k * interval, in that order, end included when it falls on a step
C5_HistoricalRecords ==
    (/\ args.mode = "historical"
     /\ args.start_date # None /\ args.end_date # None
     /\ args.start_date <= args.end_date /\ args.interval > 0)
    => /\ \A k \in DOMAIN csv.rows :
            csv.rows[k].timestamp = isoformat(args.start_date + (k - 1) * args.interval)
       /\ CleanExit =>
            /\ csv.state = "closed" /\ csv.header
            /\ Len(csv.rows) =
                 ((args.end_date - args.start_date) \div args.interval) + 1

\* C5 witness: start 00:00:00, end 00:01:00, interval 30 gives exactly the
\* records of 00:00:00, 00:00:30 and 00:01:00
C5_Witness ==
    /\ args.mode = "historical" /\ CleanExit
    /\ args.start_date = 0 /\ args.end_date = 60 /\ args.interval = 30
    /\ [k \in DOMAIN csv.rows |-> csv.rows[k].timestamp] =
           << <<0, 0, 0, 0>>, <<0, 0, 0, 30>>, <<0, 0, 1, 0>> >>

\* C6: an interrupt arriving at any point after stream_mode has started ends
\* it cleanly: the interrupt is not propagated and the producer that was
\* created is closed exactly once
C6_CleanStop ==
    (pc = "exit" /\ intr = "delivered" /\ producer.state # "none")
    => /\ exc = ""
       /\ producer.state = "closed" /\ producer.closes = 1

MissingDates ==
    /\ args.mode = "historical"
    /\ args.start_date = None \/ args.end_date = None

\* C7: historical mode without both boundary dates fails with the assertion
\* before any generation: no weather step, no identifier allocated, the
\* counter file unchanged, no output file opened
C7_ConfigErrorBeforeGeneration ==
    /\ [](MissingDates =>
            /\ nsteps = 0 /\ heap = <<>> /\ issued = <<>> /\ orders = <<>>
            /\ csv = NoCsv
            /\ pc = "exit" => exc = "AssertionError")
    /\ [][MissingDates => file' = file /\ pc' = "exit"]_vars

\* C7 witness: the run given a start date only has ended on the assertion
C7_Witness ==
    /\ MissingDates /\ args.start_date # None
    /\ pc = "exit" /\ exc = "AssertionError"
    /\ file = FileOf(9)

Readable(f) == ~f.exists \/ IsIntLiteral(strip(f.text))
CounterValue(f) == IF f.exists THEN int(strip(f.text)) ELSE 0

\* C8: when the sink or the identifier store fails during an emission, the
\* error ends the run, the weather state is still in bounds, and the counter
\* file is still readable and no smaller than any identifier already issued
C8_ConsistentAfterFailure ==
    (pc = "exit" /\ exc \in {"OSError", "EventHubError"})
    => /\ heap # <<>> => InBounds(heap[1])
       /\ Readable(file)
       /\ \A i \in DOMAIN issued : Suffix(issued[i].id) <= CounterValue(file)

\* C9: historical mode runs to completion for every start, end and integer
\* interval the command line accepts: the loop exits and the file is closed,
\* and each pass moves the clock strictly forward
C9_RunsToCompletion ==
    /\ [][(pc = "h_loop" /\ pc' = "h_loop") => ts' > ts]_vars
    /\ [](args.mode = "historical" => <>(pc = "exit" /\ csv.state # "open"))

====
